---- MODULE Spec2Model ----
(***************************************************************************)
(* AdamOptimizer (src/src/optimizers/adam_optimizer.ts) as a state         *)
(* machine.                                                                *)
(*                                                                         *)
(* Numbers.  The tensors of the program hold floating-point numbers; every *)
(* tensor operation (mul, add, sub, div, sqrt, square) computes its exact  *)
(* result and rounds it to a representable number.  The model keeps that   *)
(* shape with a coarser grid: a number x is the integer x * Scale, and     *)
(* every operation rounds its exact result toward zero on that grid.  The  *)
(* operations are applied one by one in the order the code applies them.   *)
(* A tensor is a sequence of such numbers (its shape is its length), a     *)
(* scalar is a number that broadcasts.                                     *)
(*                                                                         *)
(* Resources.  Every tensor object the optimizer holds has an id; the      *)
(* model counts the calls of dispose() on each id in disposeCalls.         *)
(***************************************************************************)
EXTENDS Integers, Sequences, FiniteSets, TLC

\* ------------------------------------------------------------- bounds
\* applyGradients calls plus graph-mode batches in one behaviour.
MaxCalls == 2
\* applyGradients calls that end in an exception in one behaviour.
MaxThrows == 1

\* ------------------------------------------------------------ numbers
\* One unit of the number grid: the number 1.0 is Scale.
Scale == 2 ^ 6

Abs(x) == IF x < 0 THEN -x ELSE x

\* Exact quotient rounded toward zero (b # 0).
TDiv(a, b) ==
  IF (a >= 0) = (b > 0) THEN Abs(a) \div Abs(b) ELSE -(Abs(a) \div Abs(b))

RECURSIVE ISqrtB(_, _, _)
\* The largest r in lo..hi with r * r <= n (binary search; lo * lo <= n).
ISqrtB(n, lo, hi) ==
  IF lo >= hi THEN lo
  ELSE LET mid == (lo + hi + 1) \div 2
       IN  IF mid * mid <= n THEN ISqrtB(n, mid, hi) ELSE ISqrtB(n, lo, mid - 1)

\* Scalar arithmetic of the tensor library on the grid.
FMul(a, b) == TDiv(a * b, Scale)
FDiv(a, b) == TDiv(a * Scale, b)
FSqrt(a) == ISqrtB(a * Scale, 0, a * Scale)

\* Tensor operations: elementwise, a scalar operand broadcasts.
ScalarMul(s, t) == [i \in DOMAIN t |-> FMul(s, t[i])]
TAdd(t, u) == [i \in DOMAIN t |-> t[i] + u[i]]
TDivScalar(t, s) == [i \in DOMAIN t |-> FDiv(t[i], s)]
TDivT(t, u) == [i \in DOMAIN t |-> FDiv(t[i], u[i])]
ScalarAdd(s, t) == [i \in DOMAIN t |-> s + t[i]]
TSqrt(t) == [i \in DOMAIN t |-> FSqrt(t[i])]
TSquare(t) == [i \in DOMAIN t |-> FMul(t[i], t[i])]
\* math.scaledArrayAdd(c1, a, c2, b) = c1 * a + c2 * b
ScaledArrayAdd(c1, a, c2, b) == TAdd(ScalarMul(c1, a), ScalarMul(c2, b))

\* Variant of ZerosLike: ones instead of zeros.
OnesLike(value) == [i \in DOMAIN value |-> Scale]
\* zerosLike(value): zeros of value's shape.
ZerosLike(value) == [i \in DOMAIN value |-> 0]

IsZero(t) == \A i \in DOMAIN t : t[i] = 0

\* ------------------------------------------------------------- inputs
\* Parameter names a gradient map may hold.  "a" and "b" are registered in
\* ENV.engine.registeredVariables, "z" is not.
Names == {"a", "b", "z"}
InitialVariables == ("a" :> <<Scale, -(Scale \div 2)>>) @@ ("b" :> <<2 * Scale>>)
\* The gradients a call may pass for a name (of the parameter's shape).
GradChoices(n) ==
  CASE n = "a" -> {<<0, 0>>, <<Scale, -2 * Scale>>}
    [] n = "b" -> {<<-Scale>>}
    [] OTHER -> {<<Scale>>}
\* variableGradients: every map from a set of names to gradients.
GradientMaps ==
  UNION {{g \in [S -> UNION {GradChoices(n) : n \in S}] :
            \A n \in S : g[n] \in GradChoices(n)} : S \in SUBSET Names}
\* The orders a for-in loop may visit the keys of a map in (the insertion
\* order of the caller's object): every permutation.
Orders(S) ==
  {o \in [1..Cardinality(S) -> S] : \A i, j \in DOMAIN o : o[i] = o[j] => i = j}
\* Constructor arguments (learningRate, beta1, beta2), beta in (0, 1).
HyperParams ==
  {[learningRate |-> Scale \div 2, beta1 |-> Scale \div 2, beta2 |-> 3 * (Scale \div 4)],
   [learningRate |-> Scale \div 4, beta1 |-> 3 * (Scale \div 4), beta2 |-> 7 * (Scale \div 8)],
   [learningRate |-> Scale, beta1 |-> 7 * (Scale \div 8), beta2 |-> 15 * (Scale \div 16)]}
\* The constructor's default epsilon (1e-8): the smallest positive number.
DefaultEpsilon == 1
\* Graph mode: the variable nodes of the session and the batch sizes.
Nodes == {"n1"}
InitialNodeData == ("n1" :> <<Scale>>)
NodeGradChoices == {<<0>>, <<Scale>>}
BatchSizes == {1, 2}
Null == [id |-> 0, v |-> 0]

\* -------------------------------------------------------------- state
VARIABLES
  learningRate,             \* constructor argument
  c, eps, beta1, beta2,     \* scalars [id, v] kept by the constructor
  accBeta1, accBeta2, one,
  accumulatedFirstMoment,   \* name -> [id, data], eager mode
  accumulatedSecondMoment,
  firstMomentGraph,         \* node -> [id, data], graph mode
  secondMomentGraph,
  variableGradients,        \* node -> [id, data], the base class's sums
  cGraph, prevBatchSize,    \* base class: -learningRate / batchSize
  variableNodes,            \* base class: the nodes trained
  activationArrayMap,       \* session: node -> [id, data]
  registeredVariables,      \* ENV.engine.registeredVariables: name -> data
  nextId,                   \* the next tensor id
  disposeCalls,             \* id -> number of dispose() calls on it
  phase,                    \* "idle" | "batch" (between before/afterBatch)
  examplesLeft,             \* examples of the running batch still to come
  disposed,                 \* dispose() has run
  \* history, read by the properties only
  nApplied, nThrown, nBatches,
  lastCall,                 \* the last operation, its inputs and pre-state
  momentCreations,          \* name -> <<first, second>> creation counts
  processedNames,           \* names whose loop iteration has run
  passedNames,              \* names that a gradient map has held
  zeroRun,                  \* name -> every call so far passed it a zero
  superseded                \* ids of accumulators replaced by an advance

vars ==
  <<learningRate, c, eps, beta1, beta2, accBeta1, accBeta2, one,
    accumulatedFirstMoment, accumulatedSecondMoment, firstMomentGraph,
    secondMomentGraph, variableGradients, cGraph, prevBatchSize,
    variableNodes, activationArrayMap, registeredVariables, nextId,
    disposeCalls, phase, examplesLeft, disposed, nApplied, nThrown,
    nBatches, lastCall, momentCreations, processedNames, passedNames,
    zeroRun, superseded>>

Empty == [x \in {} |-> 0]
\* No operation yet; pre has the fields of LoopStart.
NoCall ==
  [op |-> "none", grads |-> Empty, order |-> <<>>, status |-> "ok",
   at |-> "", reads |-> Empty, processed |-> <<>>,
   pre |-> [first |-> Empty, second |-> Empty, vars |-> Empty,
            accBeta1 |-> Null, accBeta2 |-> Null, nextId |-> 0,
            disposeCalls |-> Empty, created |-> Empty, superseded |-> {},
            reads |-> Empty, processed |-> <<>>, status |-> "ok", at |-> ""],
   graph |-> [first |-> Empty, second |-> Empty, grads |-> Empty],
   released |-> <<>>]

\* The graph-mode maps a call starts from.
GraphStart ==
  [first |-> firstMomentGraph, second |-> secondMomentGraph,
   grads |-> variableGradients]

\* keep(scalar(x)) with the next id.
Scalar(id, x) == [id |-> id, v |-> x]

\* constructor, and the field initialisers of lines 41-42 and 216-218
Init ==
  \E hp \in HyperParams :
    /\ learningRate = hp.learningRate
    /\ c = Scalar(1, -hp.learningRate)
    /\ eps = Scalar(2, DefaultEpsilon)
    /\ beta1 = Scalar(3, hp.beta1)
    /\ beta2 = Scalar(4, hp.beta2)
    /\ accBeta1 = Scalar(5, hp.beta1)
    /\ accBeta2 = Scalar(6, hp.beta2)
    /\ one = Scalar(7, Scale)
    /\ accumulatedFirstMoment = Empty
    /\ accumulatedSecondMoment = Empty
    /\ firstMomentGraph = Empty
    /\ secondMomentGraph = Empty
    /\ variableGradients = Empty
    /\ cGraph = Null
    /\ prevBatchSize = 0
    /\ variableNodes = {}
    /\ activationArrayMap = [n \in Nodes |-> [id |-> 8, data |-> InitialNodeData[n]]]
    /\ registeredVariables = InitialVariables
    /\ nextId = 9
    /\ disposeCalls = [i \in 1..8 |-> 0]
    /\ phase = "idle"
    /\ examplesLeft = 0
    /\ disposed = FALSE
    /\ nApplied = 0
    /\ nThrown = 0
    /\ nBatches = 0
    /\ lastCall = NoCall
    /\ momentCreations = Empty
    /\ processedNames = {}
    /\ passedNames = {}
    /\ zeroRun = [n \in Names |-> TRUE]
    /\ superseded = {}

\* ------------------------------------------------- applyGradients
\* The state the loop of applyGradients runs on: the optimizer's fields
\* and the variable store, with what the loop did (reads, processed,
\* status, at).
LoopStart ==
  [first |-> accumulatedFirstMoment, second |-> accumulatedSecondMoment,
   vars |-> registeredVariables, accBeta1 |-> accBeta1, accBeta2 |-> accBeta2,
   nextId |-> nextId, disposeCalls |-> disposeCalls,
   created |-> momentCreations, superseded |-> superseded,
   reads |-> Empty, processed |-> <<>>, status |-> "ok", at |-> ""]

Created(created, name, k) ==
  IF name \in DOMAIN created
    THEN [created EXCEPT ![name][k] = @ + 1]
    ELSE (name :> [i \in 1..2 |-> IF i = k THEN 1 ELSE 0]) @@ created

\* Variant of EnsureMoments without the == null tests.
EnsureMomentsAlways(st, name, value) ==
  LET s1 == [st EXCEPT
               !.first = (name :> [id |-> st.nextId, data |-> ZerosLike(value)]) @@ @,
               !.nextId = @ + 1,
               !.disposeCalls = @ @@ (st.nextId :> 0),
               !.created = Created(@, name, 1)]
  IN  [s1 EXCEPT
         !.second = (name :> [id |-> s1.nextId, data |-> ZerosLike(value)]) @@ @,
         !.nextId = @ + 1,
         !.disposeCalls = @ @@ (s1.nextId :> 0),
         !.created = Created(@, name, 2)]
\* Lines 62-71: a moment variable is created, as zeros of the value's
\* shape, when the map holds none for the name.
EnsureMoments(st, name, value) ==
  LET s1 == IF name \notin DOMAIN st.first
              THEN [st EXCEPT
                      !.first = (name :> [id |-> st.nextId,
                                          data |-> ZerosLike(value)]) @@ @,
                      !.nextId = @ + 1,
                      !.disposeCalls = @ @@ (st.nextId :> 0),
                      !.created = Created(@, name, 1)]
              ELSE st
  IN  IF name \notin DOMAIN s1.second
        THEN [s1 EXCEPT
                !.second = (name :> [id |-> s1.nextId,
                                     data |-> ZerosLike(value)]) @@ @,
                !.nextId = @ + 1,
                !.disposeCalls = @ @@ (s1.nextId :> 0),
                !.created = Created(@, name, 2)]
        ELSE s1

\* Lines 78-79: beta1.mul(firstMoment).add(one.sub(beta1).mul(gradient))
NewFirstMoment(firstMoment, gradient) ==
  TAdd(ScalarMul(beta1.v, firstMoment), ScalarMul(one.v - beta1.v, gradient))

\* Lines 80-82: beta2.mul(secondMoment).add(
\*                  one.sub(beta2).mul(gradient.square()))
NewSecondMoment(secondMoment, gradient) ==
  TAdd(ScalarMul(beta2.v, secondMoment),
       ScalarMul(one.v - beta2.v, TSquare(gradient)))

\* Variant of BiasCorrected: divides by accBeta, not by 1 - accBeta.
BiasCorrectedNoSub(newMoment, accBeta) == TDivScalar(newMoment, accBeta)
\* Lines 84-87: newMoment.div(one.sub(accBeta))
BiasCorrected(newMoment, accBeta) == TDivScalar(newMoment, one.v - accBeta)

\* Variant of NewValue: corrects the moments read before the update.
NewValueFromOldMoments(first, second, newFirst, newSecond, acc1, acc2, value) ==
  TAdd(ScalarMul(c.v, TDivT(BiasCorrected(first, acc1),
                            ScalarAdd(eps.v, TSqrt(BiasCorrected(second, acc2))))),
       value)
\* Lines 84-95: the bias-corrected new moments give the step,
\* c.mul(bcFirst.div(eps.add(bcSecond.sqrt()))).add(value).  first and
\* second are the moments read at lines 74-75.
NewValue(first, second, newFirst, newSecond, acc1, acc2, value) ==
  TAdd(ScalarMul(c.v, TDivT(BiasCorrected(newFirst, acc1),
                            ScalarAdd(eps.v, TSqrt(BiasCorrected(newSecond, acc2))))),
       value)

\* Variant of AdvanceAccumulators: accBeta2 is multiplied by beta1.
AdvanceAccumulatorsSwapped(st) ==
  [st EXCEPT
     !.accBeta1 = Scalar(st.nextId, FMul(st.accBeta1.v, beta1.v)),
     !.accBeta2 = Scalar(st.nextId + 1, FMul(st.accBeta2.v, beta1.v)),
     !.nextId = @ + 2,
     !.disposeCalls =
        [i \in DOMAIN @ \cup {st.nextId, st.nextId + 1} |->
           IF i \in DOMAIN @
             THEN @[i] + (IF i \in {st.accBeta1.id, st.accBeta2.id} THEN 1 ELSE 0)
             ELSE 0],
     !.superseded = @ \cup {st.accBeta1.id, st.accBeta2.id}]
\* Lines 100-108 (and 171-179): the accumulators are replaced by their
\* product with beta, and the replaced scalars are disposed.
AdvanceAccumulators(st) ==
  [st EXCEPT
     !.accBeta1 = Scalar(st.nextId, FMul(st.accBeta1.v, beta1.v)),
     !.accBeta2 = Scalar(st.nextId + 1, FMul(st.accBeta2.v, beta2.v)),
     !.nextId = @ + 2,
     !.disposeCalls =
        [i \in DOMAIN @ \cup {st.nextId, st.nextId + 1} |->
           IF i \in DOMAIN @
             THEN @[i] + (IF i \in {st.accBeta1.id, st.accBeta2.id} THEN 1 ELSE 0)
             ELSE 0],
     !.superseded = @ \cup {st.accBeta1.id, st.accBeta2.id}]

Range(f) == {f[i] : i \in DOMAIN f}

\* Variant of UpdateRegistered: the first moment read is that of the name
\* of the previous iteration (its first element, broadcast).
UpdateRegisteredStale(st, name, gradient) ==
  LET value == st.vars[name]
      s1 == EnsureMoments(st, name, value)
      from == IF st.processed = <<>> THEN name ELSE st.processed[Len(st.processed)]
      firstMoment == [i \in DOMAIN value |-> s1.first[from].data[1]]
      secondMoment == s1.second[name].data
      newFirst == NewFirstMoment(firstMoment, gradient)
      newSecond == NewSecondMoment(secondMoment, gradient)
      newValue == NewValue(firstMoment, secondMoment, newFirst, newSecond,
                           s1.accBeta1.v, s1.accBeta2.v, value)
  IN  [s1 EXCEPT !.first[name].data = newFirst,
                 !.second[name].data = newSecond,
                 !.vars[name] = newValue,
                 !.reads = (name :> <<s1.accBeta1.v, s1.accBeta2.v>>) @@ @,
                 !.processed = Append(@, name)]
\* Lines 62-97, one iteration of the loop for a registered name: the
\* moments are created when absent, read (74-75), replaced by the new
\* moments (89-90), and the value is assigned its new value (96).
UpdateRegistered(st, name, gradient) ==
  LET value == st.vars[name]
      s1 == EnsureMoments(st, name, value)
      firstMoment == s1.first[name].data
      secondMoment == s1.second[name].data
      newFirst == NewFirstMoment(firstMoment, gradient)
      newSecond == NewSecondMoment(secondMoment, gradient)
      newValue == NewValue(firstMoment, secondMoment, newFirst, newSecond,
                           s1.accBeta1.v, s1.accBeta2.v, value)
  IN  [s1 EXCEPT !.first[name].data = newFirst,
                 !.second[name].data = newSecond,
                 !.vars[name] = newValue,
                 !.reads = (name :> <<s1.accBeta1.v, s1.accBeta2.v>>) @@ @,
                 !.processed = Append(@, name)]

\* Variant of ApplyOne: a name without a value is skipped.
ApplyOneSkipMissing(st, name, gradient) ==
  IF name \notin DOMAIN st.vars THEN st ELSE UpdateRegistered(st, name, gradient)
\* Variant of ApplyOne: the accumulators advance in every iteration.
ApplyOneAdvancing(st, name, gradient) ==
  IF name \notin DOMAIN st.vars
    THEN [st EXCEPT !.status = "threw", !.at = name]
    ELSE AdvanceAccumulators(UpdateRegistered(st, name, gradient))
\* Lines 60-98, one iteration.  value (line 61) is undefined for a name
\* the variable store does not hold: zerosLike(value) then reads the shape
\* of undefined and throws (a name without a value has no moments yet), as
\* value.assign (line 96) would; the exception leaves the loop and the
\* call.
ApplyOne(st, name, gradient) ==
  IF name \notin DOMAIN st.vars
    THEN [st EXCEPT !.status = "threw", !.at = name]
    ELSE UpdateRegistered(st, name, gradient)

RECURSIVE ApplyLoop(_, _, _)
\* Line 60: for (const variableName in variableGradients), in key order.
ApplyLoop(st, order, grads) ==
  IF order = <<>> \/ st.status = "threw" THEN st
  ELSE ApplyLoop(ApplyOne(st, Head(order), grads[Head(order)]), Tail(order), grads)

\* Lines 59-109: the loop, then the advance of the accumulators unless an
\* exception left the call.
RunApplyGradients(start, grads, order) ==
  LET res == ApplyLoop(start, order, grads)
  IN  IF res.status = "ok" THEN AdvanceAccumulators(res) ELSE res

Calls == nApplied + nThrown + nBatches

\* applyGradients(variableGradients).  The session runs a batch from
\* beforeBatch to afterBatch without returning, so a call starts only
\* between batches; an exception leaves the optimizer usable.
ApplyGradients ==
  \E grads \in GradientMaps : \E order \in Orders(DOMAIN grads) :
    /\ ~disposed
    /\ phase = "idle"
    /\ Calls < MaxCalls
    \* res: what the call does, evaluated once
    /\ \E res \in {RunApplyGradients(LoopStart, grads, order)} :
       /\ res.status = "threw" => nThrown < MaxThrows
       /\ accumulatedFirstMoment' = res.first
       /\ accumulatedSecondMoment' = res.second
       /\ registeredVariables' = res.vars
       /\ accBeta1' = res.accBeta1
       /\ accBeta2' = res.accBeta2
       /\ nextId' = res.nextId
       /\ disposeCalls' = res.disposeCalls
       /\ momentCreations' = res.created
       /\ superseded' = res.superseded
       /\ processedNames' = processedNames \cup Range(res.processed)
       /\ passedNames' = passedNames \cup DOMAIN grads
       /\ nApplied' = IF res.status = "ok" THEN nApplied + 1 ELSE nApplied
       /\ nThrown' = IF res.status = "ok" THEN nThrown ELSE nThrown + 1
       /\ zeroRun' = [n \in Names |->
                        /\ zeroRun[n]
                        /\ IF res.status = "ok"
                             THEN n \in DOMAIN grads /\ IsZero(grads[n])
                             ELSE n \in DOMAIN grads => IsZero(grads[n])]
       /\ lastCall' = [NoCall EXCEPT !.op = "applyGradients", !.grads = grads,
                                     !.order = order, !.status = res.status,
                                     !.at = res.at, !.reads = res.reads,
                                     !.processed = res.processed,
                                     !.pre = LoopStart]
       /\ UNCHANGED <<learningRate, c, eps, beta1, beta2, one, firstMomentGraph,
                      secondMomentGraph, variableGradients, cGraph, prevBatchSize,
                      variableNodes, activationArrayMap, phase, examplesLeft,
                      disposed, nBatches>>

\* ------------------------------------------------------- graph mode
\* The order forEach visits the variable nodes in.
NodeOrder == <<"n1">>
NodeIndex(n) == CHOOSE i \in DOMAIN NodeOrder : NodeOrder[i] = n
NumNodes == Len(NodeOrder)

\* dispose() called on each id of the sequence ids.
Bump(dc, ids) ==
  [i \in DOMAIN dc |-> dc[i] + Cardinality({k \in DOMAIN ids : ids[k] = i})]
\* The tensors created up to id upTo, not yet disposed.
Extend(dc, upTo) == [i \in 1..upTo |-> IF i \in DOMAIN dc THEN dc[i] ELSE 0]

RECURSIVE SeqOf(_)
SeqOf(S) == IF S = {} THEN <<>>
            ELSE LET x == CHOOSE y \in S : \A z \in S : y <= z
                 IN  <<x>> \o SeqOf(S \ {x})
\* The ids of the tensors a map holds, as a dispose of the map visits them.
IdsOf(map) == SeqOf({map[k].id : k \in DOMAIN map})

\* Optimizer.beforeBatch (the base class): the nodes to train, cGraph =
\* -learningRate / batchSize (re-created when the batch size changes) and
\* a zero sum of gradients per node.
SuperBeforeBatch(batchSize) ==
  LET newC == batchSize # prevBatchSize
      base == nextId + (IF newC THEN 1 ELSE 0)
  IN  [variableNodes |-> Nodes,
       prevBatchSize |-> batchSize,
       cGraph |-> IF newC THEN Scalar(nextId, TDiv(-learningRate, batchSize))
                  ELSE cGraph,
       variableGradients |->
         [n \in Nodes |-> [id |-> base + NodeIndex(n) - 1,
                           data |-> ZerosLike(activationArrayMap[n].data)]],
       nextId |-> base + NumNodes,
       released |-> IF newC /\ cGraph # Null THEN <<cGraph.id>> ELSE <<>>]

\* Lines 111-130.
BeforeBatch ==
  \E batchSize \in BatchSizes :
    LET sup == SuperBeforeBatch(batchSize)
        needFirst == DOMAIN firstMomentGraph = {}
        needSecond == DOMAIN secondMomentGraph = {}
        base2 == sup.nextId + (IF needFirst THEN NumNodes ELSE 0)
        last == base2 + (IF needSecond THEN NumNodes ELSE 0)
    IN
    /\ ~disposed
    /\ phase = "idle"
    /\ Calls < MaxCalls
    /\ variableNodes' = sup.variableNodes
    /\ prevBatchSize' = sup.prevBatchSize
    /\ cGraph' = sup.cGraph
    /\ variableGradients' = sup.variableGradients
    /\ firstMomentGraph' =
         IF needFirst
           THEN [n \in sup.variableNodes |->
                   [id |-> sup.nextId + NodeIndex(n) - 1,
                    data |-> ZerosLike(activationArrayMap[n].data)]]
           ELSE firstMomentGraph
    /\ secondMomentGraph' =
         IF needSecond
           THEN [n \in sup.variableNodes |->
                   [id |-> base2 + NodeIndex(n) - 1,
                    data |-> ZerosLike(activationArrayMap[n].data)]]
           ELSE secondMomentGraph
    /\ nextId' = last
    /\ disposeCalls' = Bump(Extend(disposeCalls, last - 1), sup.released)
    /\ phase' = "batch"
    /\ examplesLeft' = batchSize
    /\ lastCall' = [NoCall EXCEPT !.op = "beforeBatch", !.pre = LoopStart,
                                  !.graph = GraphStart]
    /\ UNCHANGED <<learningRate, c, eps, beta1, beta2, accBeta1, accBeta2, one,
                   accumulatedFirstMoment, accumulatedSecondMoment,
                   activationArrayMap, registeredVariables, disposed, nApplied,
                   nThrown, nBatches, momentCreations, processedNames, passedNames, zeroRun,
                   superseded>>

\* Optimizer.afterExample (the base class): the example's gradient of each
\* node is added to the node's sum, and the old sum is disposed.
AfterExample ==
  \E g \in [Nodes -> NodeGradChoices] :
    /\ ~disposed
    /\ phase = "batch"
    /\ examplesLeft > 0
    /\ variableGradients' =
         [n \in variableNodes |->
            [id |-> nextId + NodeIndex(n) - 1,
             data |-> TAdd(g[n], variableGradients[n].data)]]
    /\ nextId' = nextId + NumNodes
    /\ disposeCalls' = Bump(Extend(disposeCalls, nextId + NumNodes - 1),
                            IdsOf(variableGradients))
    /\ examplesLeft' = examplesLeft - 1
    /\ lastCall' = [NoCall EXCEPT !.op = "afterExample", !.pre = LoopStart]
    /\ UNCHANGED <<learningRate, c, eps, beta1, beta2, accBeta1, accBeta2, one,
                   accumulatedFirstMoment, accumulatedSecondMoment,
                   firstMomentGraph, secondMomentGraph, cGraph, prevBatchSize,
                   variableNodes, activationArrayMap, registeredVariables,
                   phase, disposed, nApplied, nThrown, nBatches,
                   momentCreations, processedNames, passedNames, zeroRun, superseded>>

\* Lines 138-158 for one node: the new moments and the new variable.
GraphUpdate(node) ==
  LET oldVariable == activationArrayMap[node].data
      gradient == variableGradients[node].data
      oldFirstMoment == firstMomentGraph[node].data
      oldSecondMoment == secondMomentGraph[node].data
      newFirstMoment ==
        ScaledArrayAdd(beta1.v, oldFirstMoment, one.v - beta1.v, gradient)
      newSecondMoment ==
        ScaledArrayAdd(beta2.v, oldSecondMoment, one.v - beta2.v,
                       TSquare(gradient))
      biasCorrectedFirstMoment == TDivScalar(newFirstMoment, one.v - accBeta1.v)
      biasCorrectedSecondMoment == TDivScalar(newSecondMoment, one.v - accBeta2.v)
  IN  [first |-> newFirstMoment,
       second |-> newSecondMoment,
       variable |->
         ScaledArrayAdd(cGraph.v,
                        TDivT(biasCorrectedFirstMoment,
                              ScalarAdd(eps.v, TSqrt(biasCorrectedSecondMoment))),
                        one.v, oldVariable)]

\* Lines 171-179: as lines 100-108.
AdvanceAccumulatorsGraph(st) ==
  [st EXCEPT
     !.accBeta1 = Scalar(st.nextId, FMul(st.accBeta1.v, beta1.v)),
     !.accBeta2 = Scalar(st.nextId + 1, FMul(st.accBeta2.v, beta2.v)),
     !.nextId = @ + 2,
     !.disposeCalls = Bump(Extend(@, st.nextId + 1),
                           <<st.accBeta1.id, st.accBeta2.id>>),
     !.superseded = @ \cup {st.accBeta1.id, st.accBeta2.id}]

\* Variant of VariableGradientsAfterBatch: the map is not replaced.
VariableGradientsKept == variableGradients
\* Lines 182-183: the map of summed gradients after the batch.
VariableGradientsAfterBatch == Empty

\* Lines 132-184.
AfterBatch ==
  LET upd == [n \in variableNodes |-> GraphUpdate(n)]
      \* keep(variable), keep(newFirstMoment), keep(newSecondMoment)
      idOf(n, k) == nextId + 3 * (NodeIndex(n) - 1) + k
      afterNodes ==
        [accBeta1 |-> accBeta1, accBeta2 |-> accBeta2,
         nextId |-> nextId + 3 * NumNodes,
         disposeCalls |->
           Bump(Extend(disposeCalls, nextId + 3 * NumNodes - 1),
                \* lines 165-168
                IdsOf(activationArrayMap) \o IdsOf(variableGradients)
                  \o IdsOf(firstMomentGraph) \o IdsOf(secondMomentGraph)),
         superseded |-> superseded]
      adv == AdvanceAccumulatorsGraph(afterNodes)
  IN
  /\ ~disposed
  /\ phase = "batch"
  /\ examplesLeft = 0
  /\ activationArrayMap' =
       [n \in Nodes |-> IF n \in variableNodes
                          THEN [id |-> idOf(n, 0), data |-> upd[n].variable]
                          ELSE activationArrayMap[n]]
  /\ firstMomentGraph' =
       \* line 162
       [n \in variableNodes |-> [id |-> idOf(n, 1), data |-> upd[n].first]]
  /\ secondMomentGraph' =
       \* line 163
       [n \in variableNodes |-> [id |-> idOf(n, 2), data |-> upd[n].second]]
  /\ accBeta1' = adv.accBeta1
  /\ accBeta2' = adv.accBeta2
  /\ nextId' = adv.nextId
  /\ superseded' = adv.superseded
  \* line 182: variableGradients.dispose() disposes every tensor it holds
  /\ disposeCalls' = Bump(adv.disposeCalls, IdsOf(variableGradients))
  /\ variableGradients' = VariableGradientsAfterBatch
  /\ phase' = "idle"
  /\ nBatches' = nBatches + 1
  /\ lastCall' = [NoCall EXCEPT !.op = "afterBatch", !.pre = LoopStart,
                                !.graph = GraphStart]
  /\ UNCHANGED <<learningRate, c, eps, beta1, beta2, one,
                 accumulatedFirstMoment, accumulatedSecondMoment, cGraph,
                 prevBatchSize, variableNodes, registeredVariables,
                 examplesLeft, disposed, nApplied, nThrown, momentCreations,
                 processedNames, passedNames, zeroRun>>

\* ------------------------------------------------------------ dispose
\* Optimizer.dispose (the base class) releases the scalar the base class
\* holds.  c, eps, beta1, beta2, accBeta1, accBeta2 and one are private
\* fields of AdamOptimizer, which the base class does not touch.
SuperDisposeIds == IF cGraph # Null THEN <<cGraph.id>> ELSE <<>>

\* Variant of DisposeIds: beta1 is disposed twice, beta2 never.
DisposeIdsBeta1Twice ==
  <<c.id, eps.id, beta1.id, beta1.id, accBeta1.id, accBeta2.id, one.id>>
    \o IdsOf(firstMomentGraph) \o IdsOf(secondMomentGraph)
    \o IdsOf(accumulatedFirstMoment) \o IdsOf(accumulatedSecondMoment)
\* Lines 188-212: the tensors dispose() calls dispose on, in order.
DisposeIds ==
  <<c.id, eps.id, beta1.id, beta2.id, accBeta1.id, accBeta2.id, one.id>>
    \o IdsOf(firstMomentGraph) \o IdsOf(secondMomentGraph)
    \o IdsOf(accumulatedFirstMoment) \o IdsOf(accumulatedSecondMoment)

\* Lines 186-213.  The uses of a disposed optimizer are not modelled: every
\* operation reads tensors that dispose has released.
Dispose ==
  LET released == SuperDisposeIds \o DisposeIds IN
  /\ ~disposed
  /\ phase = "idle"
  /\ disposeCalls' = Bump(disposeCalls, released)
  /\ disposed' = TRUE
  /\ lastCall' = [NoCall EXCEPT !.op = "dispose", !.pre = LoopStart,
                                !.released = released]
  /\ UNCHANGED <<learningRate, c, eps, beta1, beta2, accBeta1, accBeta2, one,
                 accumulatedFirstMoment, accumulatedSecondMoment,
                 firstMomentGraph, secondMomentGraph, variableGradients,
                 cGraph, prevBatchSize, variableNodes, activationArrayMap,
                 registeredVariables, nextId, phase, examplesLeft, nApplied,
                 nThrown, nBatches, momentCreations, processedNames, passedNames, zeroRun,
                 superseded>>

Next ==
  \/ ApplyGradients
  \/ BeforeBatch
  \/ AfterExample
  \/ AfterBatch
  \/ Dispose

Spec == Init /\ [][Next]_vars

\* --------------------------------------------------------- properties
Applied == lastCall.op = "applyGradients"
Completed == Applied /\ lastCall.status = "ok"
Pre == lastCall.pre
\* The moment stored for n before the call: zeros when there was none.
PreMoment(map, n) ==
  IF n \in DOMAIN map THEN map[n].data ELSE [i \in DOMAIN Pre.vars[n] |-> 0]

RECURSIVE Pow(_, _)
\* b to the power n (n >= 1), each product rounded as the tensors' is.
Pow(b, n) == IF n = 1 THEN b ELSE FMul(Pow(b, n - 1), b)

\* C1: after N completed applyGradients calls (and no graph-mode batch),
\* whatever the gradient maps of the calls held, accBeta1 = beta1^(N+1)
\* and accBeta2 = beta2^(N+1).
C1_AccumulatorPowers ==
  nBatches = 0 =>
    /\ accBeta1.v = Pow(beta1.v, nApplied + 1)
    /\ accBeta2.v = Pow(beta2.v, nApplied + 1)

C1_Witness ==
  /\ nBatches = 0
  /\ nApplied = 2
  /\ Completed
  /\ Cardinality(DOMAIN lastCall.grads) = 2
  /\ accBeta1.v = FMul(FMul(beta1.v, beta1.v), beta1.v)
  /\ accBeta2.v # beta2.v

\* C2: every parameter an applyGradients call updates has its bias
\* correction read the accBeta1 and accBeta2 the call began with; a call
\* that completes updates every name of its map and only then advances the
\* accumulators, once.
C2_SameAccumulatorSnapshot ==
  Applied =>
    /\ \A n \in DOMAIN lastCall.reads :
         lastCall.reads[n] = <<Pre.accBeta1.v, Pre.accBeta2.v>>
    /\ Completed =>
         /\ DOMAIN lastCall.reads = DOMAIN lastCall.grads
         /\ accBeta1.v = FMul(Pre.accBeta1.v, beta1.v)
         /\ accBeta2.v = FMul(Pre.accBeta2.v, beta2.v)

C2_Witness ==
  /\ Completed
  /\ Cardinality(DOMAIN lastCall.grads) = 2
  /\ nApplied = 2
  /\ accBeta1.v # Pre.accBeta1.v

\* The update of C3 for one element: g the gradient, v the value, m1 and
\* m2 the stored moments, a1 and a2 the accumulators.
ExpectedFirst(m1, g) == FMul(beta1.v, m1) + FMul(Scale - beta1.v, g)
ExpectedSecond(m2, g) == FMul(beta2.v, m2) + FMul(Scale - beta2.v, FMul(g, g))
ExpectedValue(v, newFirst, newSecond, a1, a2) ==
  v + FMul(-learningRate,
           FDiv(FDiv(newFirst, Scale - a1),
                eps.v + FSqrt(FDiv(newSecond, Scale - a2))))

\* C3: for every name an applyGradients call updated (every name of its
\* map when the call completed), with gradient g, value v and stored
\* moments m1, m2 before the call (zero when the name had none): the
\* stored first moment is beta1*m1 + (1-beta1)*g, the stored second moment
\* is beta2*m2 + (1-beta2)*g^2, and the value is
\* v + (-learningRate) * (newFirst/(1-accBeta1))
\*       / (epsilon + sqrt(newSecond/(1-accBeta2)))
\* with the accumulators of the start of the call and the new moments.
C3_UpdateRule ==
  Applied =>
    /\ Completed => Range(lastCall.processed) = DOMAIN lastCall.grads
    /\ \A n \in Range(lastCall.processed) :
         LET g == lastCall.grads[n]
             v == Pre.vars[n]
             m1 == PreMoment(Pre.first, n)
             m2 == PreMoment(Pre.second, n)
         IN  /\ DOMAIN accumulatedFirstMoment[n].data = DOMAIN v
             /\ DOMAIN accumulatedSecondMoment[n].data = DOMAIN v
             /\ DOMAIN registeredVariables[n] = DOMAIN v
             /\ \A i \in DOMAIN v :
                  /\ accumulatedFirstMoment[n].data[i] = ExpectedFirst(m1[i], g[i])
                  /\ accumulatedSecondMoment[n].data[i] = ExpectedSecond(m2[i], g[i])
                  /\ registeredVariables[n][i] =
                       ExpectedValue(v[i], accumulatedFirstMoment[n].data[i],
                                     accumulatedSecondMoment[n].data[i],
                                     Pre.accBeta1.v, Pre.accBeta2.v)

C3_Witness ==
  /\ Completed
  /\ nApplied = 2
  /\ "a" \in DOMAIN lastCall.grads
  /\ "a" \in DOMAIN Pre.first
  /\ ~IsZero(Pre.first["a"].data)
  /\ ~IsZero(lastCall.grads["a"])
  /\ registeredVariables["a"] # Pre.vars["a"]
  /\ accumulatedFirstMoment["a"].data # Pre.first["a"].data

\* The case of C4: the first call on a fresh optimizer (accBeta = beta, no
\* moment entries) completed, and its map held the single parameter n.
FirstSingleCall(n) ==
  /\ Completed
  /\ DOMAIN lastCall.grads = {n}
  /\ Pre.first = Empty
  /\ Pre.second = Empty
  /\ Pre.accBeta1.v = beta1.v
  /\ Pre.accBeta2.v = beta2.v

\* C4 as amended: on a fresh optimizer, after one applyGradients call with
\* a single parameter of value v and gradient g, newFirst = (1-beta1)*g,
\* newSecond = (1-beta2)*g^2 and the new value is
\* v - learningRate * newFirst/(1-beta1) / (epsilon + sqrt(newSecond/(1-beta2))):
\* the first update's bias correction divides by (1 - beta).
C4_FirstUpdate ==
  \A n \in Names :
    FirstSingleCall(n) =>
      \A i \in DOMAIN Pre.vars[n] :
        LET g == lastCall.grads[n][i]
            newFirst == FMul(Scale - beta1.v, g)
            newSecond == FMul(Scale - beta2.v, FMul(g, g))
        IN  /\ accumulatedFirstMoment[n].data[i] = newFirst
            /\ accumulatedSecondMoment[n].data[i] = newSecond
            /\ registeredVariables[n][i] =
                 Pre.vars[n][i]
                   + FMul(-learningRate,
                          FDiv(FDiv(newFirst, Scale - beta1.v),
                               eps.v + FSqrt(FDiv(newSecond, Scale - beta2.v))))

\* C4 as stated: the same, with the bias correction dividing by
\* (1 - beta1^2) and (1 - beta2^2).
C4_FirstUpdateSquaredBeta ==
  \A n \in Names :
    FirstSingleCall(n) =>
      \A i \in DOMAIN Pre.vars[n] :
        LET g == lastCall.grads[n][i]
            newFirst == FMul(Scale - beta1.v, g)
            newSecond == FMul(Scale - beta2.v, FMul(g, g))
        IN  /\ accumulatedFirstMoment[n].data[i] = newFirst
            /\ accumulatedSecondMoment[n].data[i] = newSecond
            /\ registeredVariables[n][i] =
                 Pre.vars[n][i]
                   + FMul(-learningRate,
                          FDiv(FDiv(newFirst, Scale - FMul(beta1.v, beta1.v)),
                               eps.v + FSqrt(FDiv(newSecond,
                                                  Scale - FMul(beta2.v, beta2.v)))))

C4_Witness ==
  /\ FirstSingleCall("a")
  /\ nApplied = 1
  /\ ~IsZero(lastCall.grads["a"])
  /\ registeredVariables["a"] # Pre.vars["a"]

\* C5: before dispose, every name whose iteration an applyGradients call
\* has run has exactly one first-moment and one second-moment entry, of the
\* shape of the parameter's value, each created exactly once (never
\* re-created, never removed), and no other name has an entry.  Every name
\* a gradient map has held is such a name, unless an exception ended its
\* call before the loop reached it.
C5_MomentEntries ==
  ~disposed =>
    /\ \A n \in processedNames :
         /\ n \in DOMAIN accumulatedFirstMoment
         /\ n \in DOMAIN accumulatedSecondMoment
         /\ Len(accumulatedFirstMoment[n].data) = Len(registeredVariables[n])
         /\ Len(accumulatedSecondMoment[n].data) = Len(registeredVariables[n])
         /\ n \in DOMAIN momentCreations
         /\ momentCreations[n] = <<1, 1>>
         /\ disposeCalls[accumulatedFirstMoment[n].id] = 0
         /\ disposeCalls[accumulatedSecondMoment[n].id] = 0
    /\ DOMAIN accumulatedFirstMoment = processedNames
    /\ DOMAIN accumulatedSecondMoment = processedNames
    /\ DOMAIN momentCreations = processedNames
    /\ processedNames \subseteq passedNames
    /\ nThrown = 0 => passedNames = processedNames

C5_Witness ==
  /\ ~disposed
  /\ nApplied = 2
  /\ nThrown = 0
  /\ processedNames = {"a", "b"}
  /\ Completed
  /\ DOMAIN lastCall.grads = {"a"}
  /\ "a" \in DOMAIN Pre.first
  /\ "b" \in DOMAIN Pre.first
  /\ Len(accumulatedFirstMoment["a"].data) = 2
  /\ Len(accumulatedFirstMoment["b"].data) = 1

\* C6: from a fresh optimizer, after N >= 1 applyGradients calls that each
\* passed a zero gradient for a parameter, the parameter's value is its
\* initial value and its first and second moments are zero.
C6_ZeroGradient ==
  \A n \in DOMAIN registeredVariables :
    (nApplied >= 1 /\ zeroRun[n]) =>
      /\ registeredVariables[n] = InitialVariables[n]
      /\ n \in DOMAIN accumulatedFirstMoment
      /\ n \in DOMAIN accumulatedSecondMoment
      /\ IsZero(accumulatedFirstMoment[n].data)
      /\ IsZero(accumulatedSecondMoment[n].data)

C6_Witness ==
  /\ nApplied = 2
  /\ zeroRun["a"]
  /\ Completed
  /\ "b" \in DOMAIN lastCall.grads
  /\ IsZero(accumulatedSecondMoment["a"].data)
  /\ registeredVariables["a"] = InitialVariables["a"]

\* What C7 varies about the names other than A: their gradients (and
\* whether the map holds them), their values and their stored moments.
OtherGradChoices(n) == GradChoices(n) \cup {ZerosLike(InitialVariables[n])}
OtherGradientMaps(A) ==
  UNION {{g \in [S -> UNION {OtherGradChoices(n) : n \in S}] :
            /\ g[A] = lastCall.grads[A]
            /\ \A n \in S \ {A} : g[n] \in OtherGradChoices(n)} :
         S \in {T \in SUBSET DOMAIN InitialVariables : A \in T}}
OtherStarts(A) ==
  {Pre}
    \cup {[Pre EXCEPT !.vars[B] = ZerosLike(@)] : B \in DOMAIN Pre.vars \ {A}}
    \cup {[Pre EXCEPT !.first[B].data = OnesLike(@),
                      !.second[B].data = OnesLike(@)] :
            B \in (DOMAIN Pre.first \cap DOMAIN Pre.second) \ {A}}

\* C7: an applyGradients call leaves the moments and the value of every
\* name outside its gradient map as they were; and when the map of a
\* completed call holds two or more names, what the call stores for a name
\* A (moments and value) is what it stores for A from any start that
\* differs in the value or the moments of the other names, with any
\* gradients for the other names, in any iteration order.
C7_Isolation ==
  Applied =>
    /\ \A n \in DOMAIN registeredVariables \ DOMAIN lastCall.grads :
         /\ registeredVariables[n] = Pre.vars[n]
         /\ n \in DOMAIN accumulatedFirstMoment <=> n \in DOMAIN Pre.first
         /\ n \in DOMAIN accumulatedSecondMoment <=> n \in DOMAIN Pre.second
         /\ n \in DOMAIN Pre.first =>
              accumulatedFirstMoment[n] = Pre.first[n]
         /\ n \in DOMAIN Pre.second =>
              accumulatedSecondMoment[n] = Pre.second[n]
    /\ (Completed /\ Cardinality(DOMAIN lastCall.grads) >= 2) =>
         \A A \in DOMAIN lastCall.grads :
           \A g \in OtherGradientMaps(A) : \A o \in Orders(DOMAIN g) :
             \A start \in OtherStarts(A) :
               \E res \in {RunApplyGradients(start, g, o)} :
                 /\ res.status = "ok"
                 /\ res.first[A].data = accumulatedFirstMoment[A].data
                 /\ res.second[A].data = accumulatedSecondMoment[A].data
                 /\ res.vars[A] = registeredVariables[A]

C7_Witness ==
  /\ Completed
  /\ nApplied = 2
  /\ DOMAIN lastCall.grads = {"a", "b"}
  /\ lastCall.order = <<"b", "a">>
  /\ "a" \in DOMAIN Pre.first
  /\ "b" \in DOMAIN Pre.first
  /\ ~IsZero(Pre.first["a"].data)
  /\ ~IsZero(Pre.first["b"].data)
  /\ ~IsZero(lastCall.grads["a"])
  /\ registeredVariables["a"] # Pre.vars["a"]
  /\ registeredVariables["b"] # Pre.vars["b"]

\* C8: one call of dispose, after any sequence of applyGradients calls and
\* batches, calls dispose on no tensor twice and on no tensor that was
\* disposed before: c, eps, beta1, beta2, one, the current accBeta1 and
\* accBeta2 and every moment tensor are disposed exactly once, and the
\* accumulator scalars an advance replaced and disposed are not disposed
\* again.
C8_DisposeOnce ==
  lastCall.op = "dispose" =>
    LET rel == lastCall.released
        held == {c.id, eps.id, beta1.id, beta2.id, one.id, accBeta1.id, accBeta2.id}
                  \cup {accumulatedFirstMoment[n].id : n \in DOMAIN accumulatedFirstMoment}
                  \cup {accumulatedSecondMoment[n].id : n \in DOMAIN accumulatedSecondMoment}
                  \cup {firstMomentGraph[n].id : n \in DOMAIN firstMomentGraph}
                  \cup {secondMomentGraph[n].id : n \in DOMAIN secondMomentGraph}
    IN  /\ \A i, j \in DOMAIN rel : rel[i] = rel[j] => i = j
        /\ \A i \in DOMAIN rel : Pre.disposeCalls[rel[i]] = 0
        /\ Cardinality(held) =
             7 + 2 * Cardinality(DOMAIN accumulatedFirstMoment)
               + 2 * Cardinality(DOMAIN firstMomentGraph)
        /\ \A id \in held : id \in Range(rel) /\ disposeCalls[id] = 1
        /\ \A id \in superseded : id \notin Range(rel) /\ disposeCalls[id] = 1

C8_Witness ==
  /\ lastCall.op = "dispose"
  /\ nApplied >= 1
  /\ nBatches >= 1
  /\ DOMAIN accumulatedFirstMoment = {"a", "b"}
  /\ DOMAIN firstMomentGraph # {}
  /\ Cardinality(superseded) = 4
  /\ Len(lastCall.released) = 14

\* C9 as amended: after each afterBatch call the summed gradients
\* (variableGradients) are reset to an empty map; the moment state is not
\* cleared: firstMomentGraph and secondMomentGraph hold, for every variable
\* node, the node's updated moments (live tensors), and the next
\* beforeBatch leaves them as they are.
C9_GradientsResetMomentsKept ==
  /\ lastCall.op = "afterBatch" =>
       /\ variableGradients = Empty
       /\ DOMAIN firstMomentGraph = variableNodes
       /\ DOMAIN secondMomentGraph = variableNodes
       /\ \A n \in variableNodes :
            /\ disposeCalls[firstMomentGraph[n].id] = 0
            /\ disposeCalls[secondMomentGraph[n].id] = 0
            /\ \A i \in DOMAIN firstMomentGraph[n].data :
                 /\ firstMomentGraph[n].data[i] =
                      ExpectedFirst(lastCall.graph.first[n].data[i],
                                    lastCall.graph.grads[n].data[i])
                 /\ secondMomentGraph[n].data[i] =
                      ExpectedSecond(lastCall.graph.second[n].data[i],
                                     lastCall.graph.grads[n].data[i])
  /\ (lastCall.op = "beforeBatch" /\ nBatches >= 1) =>
       /\ firstMomentGraph = lastCall.graph.first
       /\ secondMomentGraph = lastCall.graph.second
       /\ DOMAIN firstMomentGraph = variableNodes

\* C9 as stated: after each afterBatch call the moment state and the summed
\* gradients are cleared.
C9_AllCleared ==
  lastCall.op = "afterBatch" =>
    /\ variableGradients = Empty
    /\ firstMomentGraph = Empty
    /\ secondMomentGraph = Empty

C9_Witness ==
  /\ lastCall.op = "afterBatch"
  /\ nBatches = 2
  /\ variableGradients = Empty
  /\ lastCall.graph.grads # Empty
  /\ \E n \in variableNodes :
       /\ ~IsZero(lastCall.graph.first[n].data)
       /\ ~IsZero(lastCall.graph.grads[n].data)
       /\ ~IsZero(firstMomentGraph[n].data)

\* The first name, in iteration order, that the variable store of the
\* start of the call does not hold (0 when it holds them all).
FirstMissing ==
  LET missing == {i \in DOMAIN lastCall.order : lastCall.order[i] \notin DOMAIN Pre.vars}
  IN  IF missing = {} THEN 0 ELSE CHOOSE i \in missing : \A j \in missing : i <= j

\* C10: an applyGradients call whose gradient map holds a name absent from
\* the variable store throws at the first such name the loop reaches: the
\* names before it have been updated, that name and the names after it
\* have not, the accumulators are not advanced and the call is not counted
\* as completed; a call whose names are all registered does not throw.
C10_MissingVariableThrows ==
  Applied =>
    IF FirstMissing = 0
      THEN lastCall.status = "ok"
      ELSE /\ lastCall.status = "threw"
           /\ lastCall.at = lastCall.order[FirstMissing]
           /\ lastCall.processed = SubSeq(lastCall.order, 1, FirstMissing - 1)
           /\ \A i \in FirstMissing..Len(lastCall.order) :
                LET n == lastCall.order[i]
                IN  /\ n \in DOMAIN Pre.vars => registeredVariables[n] = Pre.vars[n]
                    /\ n \in DOMAIN accumulatedFirstMoment <=> n \in DOMAIN Pre.first
                    /\ n \in DOMAIN Pre.first =>
                         accumulatedFirstMoment[n] = Pre.first[n]
           /\ accBeta1 = Pre.accBeta1
           /\ accBeta2 = Pre.accBeta2
           /\ nThrown >= 1

C10_Witness ==
  /\ Applied
  /\ lastCall.status = "threw"
  /\ lastCall.at = "z"
  /\ lastCall.order = <<"a", "z", "b">>
  /\ lastCall.processed = <<"a">>
  /\ registeredVariables["a"] # Pre.vars["a"]
  /\ registeredVariables["b"] = Pre.vars["b"]

====
